---- MODULE Spec2Model ----
(***************************************************************************)
(* A model of vocab_processor.c: the chained hash table of words           *)
(* (hash_string, insert_word, remove_word, print_table), the tokenizer     *)
(* loop of process_file, and the driver main.                              *)
(*                                                                         *)
(* A character is its code (an int, as fgetc returns it); a C string is    *)
(* the sequence of its characters without the terminating NUL.  A bucket's *)
(* chain of nodes is the sequence of its words, head node first.  The      *)
(* bucket array is kept sparsely: an index outside DOMAIN buckets is a     *)
(* NULL bucket (calloc zeroes the array).                                  *)
(***************************************************************************)
EXTENDS Integers, Sequences, FiniteSets, TLC

MIN_WORD_LENGTH == 4
MAX_WORD_LENGTH == 64
HASH_TABLE_SIZE == 16384

\* bounds of the model
MaxExcl == 2
MaxOps == 4

Range(s) == {s[k] : k \in DOMAIN s}

Rep(c, n) == [k \in 1..n |-> c]

(***************************************************************************)
(* <ctype.h>, <string.h> in the "C" locale (the program never calls        *)
(* setlocale).                                                             *)
(***************************************************************************)
isalpha(c) == (c >= 65 /\ c <= 90) \/ (c >= 97 /\ c <= 122)

tolower(c) == IF c >= 65 /\ c <= 90 THEN c + 32 ELSE c

\* the character of C string s at 1-based position k, NUL past its end
CharAt(s, k) == IF k <= Len(s) THEN s[k] ELSE 0

strcasecmp(s1, s2) ==
    LET diff == {k \in 1..(Len(s1) + 1) :
                    \/ tolower(CharAt(s1, k)) # tolower(CharAt(s2, k))
                    \/ CharAt(s1, k) = 0}
        k == CHOOSE m \in diff : \A n \in diff : m <= n
    IN  tolower(CharAt(s1, k)) - tolower(CharAt(s2, k))

(***************************************************************************)
(* unsigned long is 64 bits wide; a value is four 16-bit limbs, least      *)
(* significant first, so that every intermediate product fits.             *)
(***************************************************************************)
ULong(n) == <<n % 65536, (n \div 65536) % 65536, 0, 0>>

\* ((hash << 5) + hash) + c, modulo 2^64
hash_step(hash, c) ==
    LET v1 == hash[1] * 33 + c
        v2 == hash[2] * 33 + (v1 \div 65536)
        v3 == hash[3] * 33 + (v2 \div 65536)
        v4 == hash[4] * 33 + (v3 \div 65536)
    IN  <<v1 % 65536, v2 % 65536, v3 % 65536, v4 % 65536>>

\* the while loop over the characters str[lo] .. str[hi], from the value hash.
\* The range is split in halves, and the test on the first half's value makes
\* TLC compute it before the second half, so the evaluation stays shallow.
RECURSIVE hash_loop(_, _, _, _)
hash_loop(hash, str, lo, hi) ==
    IF lo > hi THEN hash
    ELSE IF lo = hi THEN hash_step(hash, tolower(str[lo]))
    ELSE LET mid == (lo + hi) \div 2
             half == hash_loop(hash, str, lo, mid)
         IN  IF Len(half) = 4 THEN hash_loop(half, str, mid + 1, hi) ELSE half

hash_string(str) == hash_loop(ULong(5381), str, 1, Len(str))

\* hash % size, for a size below 2^15
ULongMod(hash, size) ==
    LET r4 == hash[4] % size
        r3 == (r4 * 65536 + hash[3]) % size
        r2 == (r3 * 65536 + hash[2]) % size
    IN  (r2 * 65536 + hash[1]) % size

(***************************************************************************)
(* The hash table.                                                         *)
(***************************************************************************)
NullTable == [size |-> 0, buckets |-> <<>>]

AllocOutcomes == {"ok", "no_node", "no_word"}

\* alloc: "ok", or which of the two allocations returns NULL
create_hash_table(size, alloc) ==
    IF alloc = "ok" THEN [size |-> size, buckets |-> <<>>] ELSE NullTable

Bucket(table, index) ==
    IF index \in DOMAIN table.buckets THEN table.buckets[index] ELSE <<>>

SetBucket(table, index, chain) ==
    LET dom == IF chain = <<>> THEN DOMAIN table.buckets \ {index}
               ELSE DOMAIN table.buckets \cup {index}
    IN  [table EXCEPT !.buckets =
            [j \in dom |-> IF j = index THEN chain ELSE table.buckets[j]]]

bucket_index(table, word) == ULongMod(hash_string(word), table.size)

\* the while loops of insert_word and remove_word: the first node that matches
find_node(chain, word) ==
    LET hits == {k \in 1..Len(chain) : strcasecmp(chain[k], word) = 0}
    IN  IF hits = {} THEN 0 ELSE CHOOSE m \in hits : \A n \in hits : m <= n

\* a variant with a fault: the new node is linked at the tail of the chain
insert_word_append(table, word, alloc) ==
    LET index == bucket_index(table, word)
        chain == Bucket(table, index)
    IN  IF find_node(chain, word) # 0 THEN [table |-> table, err |-> <<>>]
        ELSE IF alloc = "no_node"
        THEN [table |-> table,
              err |-> <<[msg |-> "Failed to allocate memory for new node", arg |-> 0]>>]
        ELSE IF alloc = "no_word"
        THEN [table |-> table,
              err |-> <<[msg |-> "Failed to duplicate word string", arg |-> 0]>>]
        ELSE [table |-> SetBucket(table, index, chain \o <<word>>), err |-> <<>>]

\* a variant with a fault: the chain is not searched before the new node is linked
insert_word_noscan(table, word, alloc) ==
    LET index == bucket_index(table, word)
        chain == Bucket(table, index)
    IN  IF alloc = "no_node"
        THEN [table |-> table,
              err |-> <<[msg |-> "Failed to allocate memory for new node", arg |-> 0]>>]
        ELSE IF alloc = "no_word"
        THEN [table |-> table,
              err |-> <<[msg |-> "Failed to duplicate word string", arg |-> 0]>>]
        ELSE [table |-> SetBucket(table, index, <<word>> \o chain), err |-> <<>>]

\* a variant with a fault: the node is linked before strdup is checked
insert_word_linked_early(table, word, alloc) ==
    LET index == bucket_index(table, word)
        chain == Bucket(table, index)
    IN  IF find_node(chain, word) # 0 THEN [table |-> table, err |-> <<>>]
        ELSE IF alloc = "no_node"
        THEN [table |-> table,
              err |-> <<[msg |-> "Failed to allocate memory for new node", arg |-> 0]>>]
        ELSE IF alloc = "no_word"
        THEN [table |-> SetBucket(table, index, <<word>> \o chain),
              err |-> <<[msg |-> "Failed to duplicate word string", arg |-> 0]>>]
        ELSE [table |-> SetBucket(table, index, <<word>> \o chain), err |-> <<>>]

\* the table after the call and what the call wrote to stderr
insert_word(table, word, alloc) ==
    LET index == bucket_index(table, word)
        chain == Bucket(table, index)
    IN  IF find_node(chain, word) # 0 THEN [table |-> table, err |-> <<>>]
        ELSE IF alloc = "no_node"
        THEN [table |-> table,
              err |-> <<[msg |-> "Failed to allocate memory for new node", arg |-> 0]>>]
        ELSE IF alloc = "no_word"
        THEN [table |-> table,
              err |-> <<[msg |-> "Failed to duplicate word string", arg |-> 0]>>]
        ELSE [table |-> SetBucket(table, index, <<word>> \o chain), err |-> <<>>]

Without(chain, k) == SubSeq(chain, 1, k - 1) \o SubSeq(chain, k + 1, Len(chain))

\* a variant with a fault: the words are compared with their case (strcmp)
remove_word_exact(table, word) ==
    LET index == bucket_index(table, word)
        chain == Bucket(table, index)
        hits == {k \in 1..Len(chain) : chain[k] = word}
    IN  IF hits = {} THEN table
        ELSE SetBucket(table, index, Without(chain, CHOOSE m \in hits : TRUE))

\* a variant with a fault: a word that is not found unlinks the head node
remove_word_any(table, word) ==
    LET index == bucket_index(table, word)
        chain == Bucket(table, index)
    IN  IF chain = <<>> THEN table
        ELSE IF find_node(chain, word) = 0 THEN SetBucket(table, index, Tail(chain))
        ELSE SetBucket(table, index, Without(chain, find_node(chain, word)))

remove_word(table, word) ==
    LET index == bucket_index(table, word)
        chain == Bucket(table, index)
        k == find_node(chain, word)
    IN  IF k = 0 THEN table ELSE SetBucket(table, index, Without(chain, k))

\* the lines print_table writes: buckets i = 0 .. size-1, each chain from its
\* head; the recursion steps over the NULL buckets, which print nothing
RECURSIVE print_from(_, _)
print_from(table, i) ==
    LET rest == {j \in DOMAIN table.buckets : j >= i /\ j < table.size}
    IN  IF rest = {} THEN <<>>
        ELSE LET j == CHOOSE m \in rest : \A n \in rest : m <= n
             IN  table.buckets[j] \o print_from(table, j + 1)

print_table(table) == print_from(table, 0)

(***************************************************************************)
(* The file system the run sees: FileData[f] is the content of the file    *)
(* named f; a name outside DOMAIN FileData cannot be opened.               *)
(***************************************************************************)
FileData ==
    << <<97, 97, 97, 97, 44, 65, 112, 98, 113>>,
            \* "aaaa,Apbq"
       <<116, 104, 101, 32, 99, 97, 116, 49, 65, 80, 66, 81, 50, 98, 101, 116, 97, 32, 97>>,
            \* "the cat1APBQ2beta a"
       Rep(88, 63) \o <<121, 90, 45>> \o Rep(120, 64) >>
            \* X^63 "yZ-" x^64

FileNames == {0} \cup DOMAIN FileData

\* the words the table interface is called with: three that share a bucket,
\* a case variant of one of them, and one of another bucket
ApiWords ==
    { <<97, 97, 97, 97>>,      \* "aaaa"
      <<65, 65, 65, 65>>,      \* "AAAA"
      <<97, 112, 98, 113>>,    \* "apbq"
      <<112, 98, 113, 97>>,    \* "pbqa"
      <<98, 101, 116, 97>> }   \* "beta"

VARIABLES
    pc,           \* where the run is: start, fopen, fgetc, loop, print, exit; api
    argv,         \* argv[1 .. argc-1], file names
    i,            \* the index into argv of the file being processed
    mode,         \* ProcessMode
    vocabulary,   \* the hash table
    pos,          \* characters read from the open file
    char_index,
    word_buffer,
    stdout,
    stderr,
    exit_status,  \* -1 while running
    nops,         \* calls made through the table interface
    last,         \* history: the table call made by the last step
    order,        \* history: the words in the table, oldest insertion first
    emitted       \* history: per process_file call, the words passed on

vars == <<pc, argv, i, mode, vocabulary, pos, char_index, word_buffer,
          stdout, stderr, exit_status, nops, last, order, emitted>>

argc == Len(argv) + 1

Indeterminate == [k \in 0..(MAX_WORD_LENGTH - 1) |-> -1]

NoCall == [op |-> "none", word |-> <<>>, alloc |-> "ok", found |-> FALSE]

Entries(table) == UNION {Range(table.buckets[j]) : j \in DOMAIN table.buckets}

Lower(c) == IF c \in 65..90 THEN c + 32 ELSE c

CaseEq(w1, w2) ==
    Len(w1) = Len(w2) /\ \A k \in 1..Len(w1) : Lower(w1[k]) = Lower(w2[k])

Present(table, word) == \E e \in Entries(table) : CaseEq(e, word)

\* the insertion-order history after a call took the table from old to new
OrderAfter(ord, old, new) ==
    LET kept == SelectSeq(ord, LAMBDA w : w \in Entries(new))
        added == Entries(new) \ Entries(old)
    IN  IF added = {} THEN kept ELSE Append(kept, CHOOSE w \in added : TRUE)

Call(op, table, word, alloc) ==
    [op |-> op, word |-> word, alloc |-> alloc, found |-> Present(table, word)]

(***************************************************************************)
(* process_file                                                            *)
(***************************************************************************)
\* a variant with a fault: the test is char_index < MAX_WORD_LENGTH
append_char_off_by_one(buf, idx, c) ==
    IF idx < MAX_WORD_LENGTH
    THEN [buf |-> [k \in DOMAIN buf \cup {idx} |-> IF k = idx THEN tolower(c) ELSE buf[k]],
          idx |-> idx + 1]
    ELSE [buf |-> buf, idx |-> idx]

\* a variant with a fault: the letter is stored without tolower
append_char_no_fold(buf, idx, c) ==
    IF idx < MAX_WORD_LENGTH - 1
    THEN [buf |-> [buf EXCEPT ![idx] = c], idx |-> idx + 1]
    ELSE [buf |-> buf, idx |-> idx]

\* if (char_index < MAX_WORD_LENGTH - 1) word_buffer[char_index++] = tolower(c);
append_char(buf, idx, c) ==
    IF idx < MAX_WORD_LENGTH - 1
    THEN [buf |-> [buf EXCEPT ![idx] = tolower(c)], idx |-> idx + 1]
    ELSE [buf |-> buf, idx |-> idx]

strlen(buf) ==
    LET nul == {k \in DOMAIN buf : buf[k] = 0}
    IN  CHOOSE m \in nul : \A n \in nul : m <= n

CString(buf) == [k \in 1..strlen(buf) |-> buf[k - 1]]

\* word_buffer[char_index] = '\0'; if (strlen(word_buffer) >= MIN_WORD_LENGTH)
\* insert_word or remove_word.  words: what was passed on (none or one word)
\* a variant with a fault: the mode is ignored and the word always inserted
emit_word_add_only(table, buf, idx, md, alloc) ==
    LET b == [buf EXCEPT ![idx] = 0]
        word == CString(b)
    IN  IF strlen(b) >= MIN_WORD_LENGTH
        THEN LET r == insert_word(table, word, alloc)
             IN  [buf |-> b, table |-> r.table, err |-> r.err, words |-> <<word>>]
        ELSE [buf |-> b, table |-> table, err |-> <<>>, words |-> <<>>]

emit_word(table, buf, idx, md, alloc) ==
    LET b == [buf EXCEPT ![idx] = 0]
        word == CString(b)
    IN  IF strlen(b) >= MIN_WORD_LENGTH
        THEN LET r == IF md = "MODE_ADD" THEN insert_word(table, word, alloc)
                      ELSE [table |-> remove_word(table, word), err |-> <<>>]
             IN  [buf |-> b, table |-> r.table, err |-> r.err, words |-> <<word>>]
        ELSE [buf |-> b, table |-> table, err |-> <<>>, words |-> <<>>]

\* the history of a flush: the call it made, if any
FlushCall(r, alloc) ==
    IF r.words = <<>> THEN NoCall
    ELSE Call(IF mode = "MODE_ADD" THEN "insert" ELSE "remove",
              vocabulary, r.words[1], alloc)

Emitted(r) == [emitted EXCEPT ![Len(emitted)] = @ \o r.words]

\* a variant with a fault: a file that cannot be opened ends the run
FopenFail_exits ==
    /\ pc = "fopen"
    /\ argv[i] \notin DOMAIN FileData
    /\ stderr' = Append(stderr, [msg |-> "Error: Could not open file", arg |-> argv[i]])
    /\ emitted' = Append(emitted, <<>>)
    /\ pc' = "exit"
    /\ exit_status' = 1
    /\ last' = NoCall
    /\ UNCHANGED <<argv, i, mode, vocabulary, pos, char_index, word_buffer,
                   stdout, nops, order>>

\* fopen returns NULL: the error is written and process_file returns
FopenFail ==
    /\ pc = "fopen"
    /\ argv[i] \notin DOMAIN FileData
    /\ stderr' = Append(stderr, [msg |-> "Error: Could not open file", arg |-> argv[i]])
    /\ emitted' = Append(emitted, <<>>)
    /\ pc' = "loop"
    /\ last' = NoCall
    /\ UNCHANGED <<argv, i, mode, vocabulary, pos, char_index, word_buffer,
                   stdout, exit_status, nops, order>>

\* fopen succeeds: char_index = 0, nothing read yet
FopenOk ==
    /\ pc = "fopen"
    /\ argv[i] \in DOMAIN FileData
    /\ pos' = 0
    /\ char_index' = 0
    /\ word_buffer' = Indeterminate
    /\ emitted' = Append(emitted, <<>>)
    /\ pc' = "fgetc"
    /\ last' = NoCall
    /\ UNCHANGED <<argv, i, mode, vocabulary, stdout, stderr, exit_status, nops, order>>

\* fgetc returns a letter
ReadAlpha ==
    /\ pc = "fgetc"
    /\ pos < Len(FileData[argv[i]])
    /\ LET c == FileData[argv[i]][pos + 1]
           r == append_char(word_buffer, char_index, c)
       IN  /\ isalpha(c)
           /\ word_buffer' = r.buf
           /\ char_index' = r.idx
    /\ pos' = pos + 1
    /\ last' = NoCall
    /\ UNCHANGED <<pc, argv, i, mode, vocabulary, stdout, stderr, exit_status,
                   nops, order, emitted>>

\* fgetc returns a character that is no letter
ReadDelim(alloc) ==
    /\ pc = "fgetc"
    /\ pos < Len(FileData[argv[i]])
    /\ ~isalpha(FileData[argv[i]][pos + 1])
    /\ pos' = pos + 1
    /\ IF char_index > 0
       THEN LET r == emit_word(vocabulary, word_buffer, char_index, mode, alloc)
            IN  /\ word_buffer' = r.buf
                /\ vocabulary' = r.table
                /\ stderr' = stderr \o r.err
                /\ emitted' = Emitted(r)
                /\ last' = FlushCall(r, alloc)
                /\ order' = OrderAfter(order, vocabulary, r.table)
                /\ char_index' = 0
       ELSE /\ last' = NoCall
            /\ UNCHANGED <<word_buffer, vocabulary, stderr, emitted, order, char_index>>
    /\ UNCHANGED <<pc, argv, i, mode, stdout, exit_status, nops>>

\* fgetc returns EOF: the last word is flushed, the file closed
ReadEOF(alloc) ==
    /\ pc = "fgetc"
    /\ pos = Len(FileData[argv[i]])
    /\ IF char_index > 0
       THEN LET r == emit_word(vocabulary, word_buffer, char_index, mode, alloc)
            IN  /\ word_buffer' = r.buf
                /\ vocabulary' = r.table
                /\ stderr' = stderr \o r.err
                /\ emitted' = Emitted(r)
                /\ last' = FlushCall(r, alloc)
                /\ order' = OrderAfter(order, vocabulary, r.table)
       ELSE /\ last' = NoCall
            /\ UNCHANGED <<word_buffer, vocabulary, stderr, emitted, order>>
    /\ pc' = "loop"
    /\ UNCHANGED <<argv, i, mode, pos, char_index, stdout, exit_status, nops>>

(***************************************************************************)
(* main                                                                    *)
(***************************************************************************)
Progress(tag, k) == [tag |-> tag, text |-> <<argv[k]>>]

WordLines(words) == [k \in 1..Len(words) |-> [tag |-> "word", text |-> words[k]]]

MainUsage ==
    /\ pc = "start"
    /\ argc < 3
    /\ stderr' = Append(stderr, [msg |-> "Usage", arg |-> 0])
    /\ exit_status' = 1
    /\ pc' = "exit"
    /\ UNCHANGED <<argv, i, mode, vocabulary, pos, char_index, word_buffer,
                   stdout, nops, last, order, emitted>>

MainCreate(alloc) ==
    /\ pc = "start"
    /\ argc >= 3
    /\ LET table == create_hash_table(HASH_TABLE_SIZE, alloc)
       IN  IF table = NullTable
           THEN /\ stderr' = Append(stderr,
                        [msg |-> "Fatal: Could not create vocabulary hash table.", arg |-> 0])
                /\ exit_status' = 1
                /\ pc' = "exit"
                /\ UNCHANGED <<vocabulary, stdout, i, mode>>
           ELSE /\ vocabulary' = table
                /\ stdout' = Append(stdout, Progress("Processing source file: ", 1))
                /\ i' = 1
                /\ mode' = "MODE_ADD"
                /\ pc' = "fopen"
                /\ UNCHANGED <<stderr, exit_status>>
    /\ UNCHANGED <<argv, pos, char_index, word_buffer, nops, last, order, emitted>>

\* for (int i = 2; i < argc; ++i): the next exclusion file, or the end of the loop
MainLoop ==
    /\ pc = "loop"
    /\ i' = i + 1
    /\ IF i + 1 < argc
       THEN /\ stdout' = Append(stdout, Progress("Processing exclusion file: ", i + 1))
            /\ mode' = "MODE_REMOVE"
            /\ pc' = "fopen"
       ELSE /\ pc' = "print"
            /\ UNCHANGED <<stdout, mode>>
    /\ last' = NoCall
    /\ UNCHANGED <<argv, vocabulary, pos, char_index, word_buffer, stderr,
                   exit_status, nops, order, emitted>>

\* the final listing, free_table, return 0
MainPrint ==
    /\ pc = "print"
    /\ stdout' = stdout \o <<[tag |-> "--- Final Vocabulary ---", text |-> <<>>]>>
                        \o WordLines(print_table(vocabulary))
    /\ vocabulary' = NullTable
    /\ exit_status' = 0
    /\ pc' = "exit"
    /\ last' = [NoCall EXCEPT !.op = "print"]
    /\ UNCHANGED <<argv, i, mode, pos, char_index, word_buffer, stderr, nops,
                   order, emitted>>

Init ==
    /\ pc = "start"
    /\ argv \in UNION {[1..n -> FileNames] : n \in 0..(MaxExcl + 1)}
    /\ i = 0
    /\ mode = "MODE_ADD"
    /\ vocabulary = NullTable
    /\ pos = 0
    /\ char_index = 0
    /\ word_buffer = Indeterminate
    /\ stdout = <<>>
    /\ stderr = <<>>
    /\ exit_status = -1
    /\ nops = 0
    /\ last = NoCall
    /\ order = <<>>
    /\ emitted = <<>>

Next ==
    \/ MainUsage
    \/ \E alloc \in AllocOutcomes : MainCreate(alloc)
    \/ FopenFail
    \/ FopenOk
    \/ ReadAlpha
    \/ \E alloc \in AllocOutcomes : ReadDelim(alloc)
    \/ \E alloc \in AllocOutcomes : ReadEOF(alloc)
    \/ MainLoop
    \/ MainPrint

Spec == Init /\ [][Next]_vars

(***************************************************************************)
(* The table interface on its own: any calls of insert_word, remove_word   *)
(* and print_table on a table created empty.                               *)
(***************************************************************************)
ApiInsert(word, alloc) ==
    /\ pc = "api"
    /\ nops < MaxOps
    /\ LET r == insert_word(vocabulary, word, alloc)
       IN  /\ vocabulary' = r.table
           /\ stderr' = stderr \o r.err
           /\ order' = OrderAfter(order, vocabulary, r.table)
    /\ last' = Call("insert", vocabulary, word, alloc)
    /\ nops' = nops + 1
    /\ UNCHANGED <<pc, argv, i, mode, pos, char_index, word_buffer, stdout,
                   exit_status, emitted>>

ApiRemove(word) ==
    /\ pc = "api"
    /\ nops < MaxOps
    /\ vocabulary' = remove_word(vocabulary, word)
    /\ order' = OrderAfter(order, vocabulary, vocabulary')
    /\ last' = Call("remove", vocabulary, word, "ok")
    /\ nops' = nops + 1
    /\ UNCHANGED <<pc, argv, i, mode, pos, char_index, word_buffer, stdout,
                   stderr, exit_status, emitted>>

ApiPrint ==
    /\ pc = "api"
    /\ nops < MaxOps
    /\ stdout' = stdout \o WordLines(print_table(vocabulary))
    /\ last' = [NoCall EXCEPT !.op = "print"]
    /\ nops' = nops + 1
    /\ UNCHANGED <<pc, argv, i, mode, vocabulary, pos, char_index, word_buffer,
                   stderr, exit_status, order, emitted>>

InitApi ==
    /\ pc = "api"
    /\ argv = <<>>
    /\ i = 0
    /\ mode = "MODE_ADD"
    /\ vocabulary = create_hash_table(HASH_TABLE_SIZE, "ok")
    /\ pos = 0
    /\ char_index = 0
    /\ word_buffer = Indeterminate
    /\ stdout = <<>>
    /\ stderr = <<>>
    /\ exit_status = -1
    /\ nops = 0
    /\ last = NoCall
    /\ order = <<>>
    /\ emitted = <<>>

NextApi ==
    \/ \E word \in ApiWords, alloc \in AllocOutcomes : ApiInsert(word, alloc)
    \/ \E word \in ApiWords : ApiRemove(word)
    \/ ApiPrint

SpecApi == InitApi /\ [][NextApi]_vars

(***************************************************************************)
(* What the claims are stated with: letters, maximal runs of letters, and  *)
(* the reading of the histories.  None of it uses the operators above.     *)
(***************************************************************************)
IsLetter(c) == c \in (65..90) \cup (97..122)

LowerWord(w) == [k \in 1..Len(w) |-> Lower(w[k])]

\* how many letters text starts with
LetterRunLen(text) ==
    LET stops == {k \in 1..Len(text) : ~IsLetter(text[k])}
    IN  IF stops = {} THEN Len(text)
        ELSE (CHOOSE m \in stops : \A n \in stops : m <= n) - 1

\* the maximal runs of letters of text, in order
RECURSIVE Runs(_)
Runs(text) ==
    IF text = <<>> THEN <<>>
    ELSE LET n == LetterRunLen(text)
         IN  IF n = 0 THEN Runs(Tail(text))
             ELSE <<SubSeq(text, 1, n)>> \o Runs(SubSeq(text, n + 1, Len(text)))

\* per file, its maximal runs of at least MIN_WORD_LENGTH letters
FileRuns ==
    [f \in DOMAIN FileData |->
        SelectSeq(Runs(FileData[f]), LAMBDA r : Len(r) >= MIN_WORD_LENGTH)]

First(w, n) == SubSeq(w, 1, IF Len(w) < n THEN Len(w) ELSE n)

\* per file, the runs folded to lowercase
FileRunsLower == [f \in DOMAIN FileData |->
                    [k \in 1..Len(FileRuns[f]) |-> LowerWord(FileRuns[f][k])]]

\* per file, the runs cut to MAX_WORD_LENGTH - 1 letters and folded to lowercase
FileTokens == [f \in DOMAIN FileData |->
                [k \in 1..Len(FileRuns[f]) |->
                    LowerWord(First(FileRuns[f][k], MAX_WORD_LENGTH - 1))]]

\* the k-th call of process_file has returned
Returned(k) == k \in 1..Len(emitted) /\ (k < Len(emitted) \/ pc # "fgetc")

Openable(k) == argv[k] \in DOMAIN FileData

\* the words of the listing(s) on stdout
Printed == {l.text : l \in {x \in Range(stdout) : x.tag = "word"}}

AllocMessages == {"Failed to allocate memory for new node",
                  "Failed to duplicate word string"}

AllocFailed == \E k \in 1..Len(stderr) : stderr[k].msg \in AllocMessages

OpenFailed == \E k \in 1..Len(stderr) : stderr[k].msg = "Error: Could not open file"

\* the last Len(order) lines of stdout: the listing of the print that just ran
LastListing ==
    [k \in 1..Len(order) |-> stdout[Len(stdout) - Len(order) + k].text]

OrderPos(w) == CHOOSE k \in 1..Len(order) : order[k] = w

HomeBucket(w) == ULongMod(hash_string(w), HASH_TABLE_SIZE)

(***************************************************************************)
(* C1                                                                      *)
(***************************************************************************)
\* C1: when every file opens and no allocation fails, the words listed at the
\* end of the run are exactly the tokens of the source file minus the tokens of
\* all the exclusion files.
C1_SetDifference ==
    (/\ pc = "exit"
     /\ exit_status = 0
     /\ \A k \in 1..Len(argv) : Openable(k)
     /\ ~AllocFailed)
    => /\ Len(stdout) >= Len(argv) + 1
       /\ Printed = Range(FileTokens[argv[1]])
                      \ UNION {Range(FileTokens[argv[k]]) : k \in 2..Len(argv)}

\* a run with two exclusion files that ends with some, not all, source words
C1_Witness ==
    /\ pc = "exit"
    /\ exit_status = 0
    /\ Len(argv) = 3
    /\ \A k \in 1..Len(argv) : Openable(k)
    /\ argv[2] # argv[3]
    /\ ~AllocFailed
    /\ Printed # {}
    /\ Printed # Range(FileTokens[argv[1]])

(***************************************************************************)
(* C2                                                                      *)
(***************************************************************************)
\* C2: after any calls of insert_word and remove_word on a table created
\* empty, no two entries are equal up to letter case, and every entry is in the
\* bucket hash_string(word) mod size.
C2_UniqueInHomeBucket ==
    LET b == vocabulary.buckets
        cells == UNION {{<<j, k>> : k \in 1..Len(b[j])} : j \in DOMAIN b}
    IN  /\ \A c \in cells :
              /\ c[1] \in 0..(vocabulary.size - 1)
              /\ c[1] = ULongMod(hash_string(b[c[1]][c[2]]), vocabulary.size)
       /\ \A c, d \in cells : c # d => ~CaseEq(b[c[1]][c[2]], b[d[1]][d[2]])

\* two words chained in one bucket, after an insert that found its word
C2_Witness ==
    /\ pc = "api"
    /\ last.op = "insert"
    /\ last.found
    /\ \E e \in Entries(vocabulary) : e # last.word /\ CaseEq(e, last.word)
    /\ \E j \in DOMAIN vocabulary.buckets : Len(vocabulary.buckets[j]) >= 2

(***************************************************************************)
(* C3                                                                      *)
(***************************************************************************)
\* C3 as stated: print_table lists the entries by bucket index, and within a
\* bucket the word inserted earlier comes before the word inserted later.
C3_EarlierInsertedFirst ==
    (pc = "api" /\ last.op = "print") =>
        /\ Len(stdout) >= Len(order)
        /\ Range(LastListing) = Entries(vocabulary)
        /\ \A p, q \in 1..Len(order) : p < q =>
              /\ HomeBucket(LastListing[p]) <= HomeBucket(LastListing[q])
              /\ HomeBucket(LastListing[p]) = HomeBucket(LastListing[q])
                    => OrderPos(LastListing[p]) < OrderPos(LastListing[q])

\* C3 amended: print_table lists the entries by bucket index, and within a
\* bucket the word inserted later comes before the word inserted earlier
\* (insert_word links the new node at the head of the chain).
C3_LaterInsertedFirst ==
    (pc = "api" /\ last.op = "print") =>
        /\ Len(stdout) >= Len(order)
        /\ Range(LastListing) = Entries(vocabulary)
        /\ \A p, q \in 1..Len(order) : p < q =>
              /\ HomeBucket(LastListing[p]) <= HomeBucket(LastListing[q])
              /\ HomeBucket(LastListing[p]) = HomeBucket(LastListing[q])
                    => OrderPos(LastListing[p]) > OrderPos(LastListing[q])

\* a listing of three words, two of one bucket and one of another
C3_Witness ==
    /\ pc = "api"
    /\ last.op = "print"
    /\ Len(order) = 3
    /\ Cardinality(DOMAIN vocabulary.buckets) = 2
    /\ Range(LastListing) = Entries(vocabulary)

(***************************************************************************)
(* C4, C5                                                                  *)
(***************************************************************************)
\* C4 as stated: the words process_file passes on are, in order, the maximal
\* runs of letters of at least MIN_WORD_LENGTH letters, folded to lowercase.
C4_TokensAreWholeRuns ==
    \A k \in 1..Len(emitted) :
        (Returned(k) /\ Openable(k)) => emitted[k] = FileRunsLower[argv[k]]

\* C4 amended: the words process_file passes on are, in order, the maximal runs
\* of letters of at least MIN_WORD_LENGTH letters, each cut to its first
\* MAX_WORD_LENGTH - 1 letters and folded to lowercase.
C4_TokensAreCutRuns ==
    \A k \in 1..Len(emitted) :
        (Returned(k) /\ Openable(k)) => emitted[k] = FileTokens[argv[k]]

\* "the cat1APBQ2beta a" has been read: short runs dropped, digits delimit
C4_Witness ==
    /\ pc = "loop"
    /\ Openable(i)
    /\ Len(Runs(FileData[argv[i]])) = 5
    /\ Len(emitted[i]) = 2
    /\ emitted[i] # FileRuns[argv[i]]

\* C5: a run of more than MAX_WORD_LENGTH - 1 letters gives exactly one word,
\* its first MAX_WORD_LENGTH - 1 letters in lowercase, and char_index never
\* exceeds MAX_WORD_LENGTH - 1.
C5_OverlongRunCut ==
    /\ char_index \in 0..(MAX_WORD_LENGTH - 1)
    /\ \A k \in 1..Len(emitted) :
          (Returned(k) /\ Openable(k)) =>
              LET runs == FileRuns[argv[k]]
              IN  /\ Len(emitted[k]) = Len(runs)
                  /\ \A j \in 1..Len(runs) :
                        Len(runs[j]) > MAX_WORD_LENGTH - 1 =>
                            /\ Len(emitted[k][j]) = MAX_WORD_LENGTH - 1
                            /\ \A n \in 1..(MAX_WORD_LENGTH - 1) :
                                  emitted[k][j][n] = Lower(runs[j][n])

\* a file with two overlong runs has been read, one word passed on for each
C5_Witness ==
    /\ pc = "loop"
    /\ Openable(i)
    /\ char_index = MAX_WORD_LENGTH - 1
    /\ Len(emitted[i]) = 2
    /\ \A j \in 1..2 : Len(FileRuns[argv[i]][j]) > MAX_WORD_LENGTH - 1

C7_RemoveExactlyOne ==
    [][(/\ pc = "api"
        /\ last'.op = "remove"
        /\ nops' = nops + 1
        /\ Present(vocabulary, last'.word))
       => /\ ~Present(vocabulary', last'.word)
          /\ Cardinality(Entries(vocabulary')) = Cardinality(Entries(vocabulary)) - 1
          /\ DOMAIN vocabulary'.buckets \subseteq DOMAIN vocabulary.buckets
          /\ \A j \in DOMAIN vocabulary.buckets :
                Bucket(vocabulary', j) =
                    SelectSeq(vocabulary.buckets[j],
                              LAMBDA e : ~CaseEq(e, last'.word))]_vars

\* a remove found its word, in another casing than the stored one, and left two
\* words chained in that bucket
C7_Witness ==
    /\ pc = "api"
    /\ last.op = "remove"
    /\ last.found
    /\ last.word \notin Range(order)
    /\ Len(Bucket(vocabulary, HomeBucket(last.word))) = 2

\* C8: remove_word(w), when no entry equals w up to case, leaves every bucket
\* as it was and reports nothing.
C8_RemoveAbsentNoChange ==
    [][(/\ pc = "api"
        /\ last'.op = "remove"
        /\ nops' = nops + 1
        /\ ~Present(vocabulary, last'.word))
       => /\ vocabulary' = vocabulary
          /\ stderr' = stderr
          /\ order' = order]_vars

\* a remove found nothing in a bucket that chains two other words
C8_Witness ==
    /\ pc = "api"
    /\ last.op = "remove"
    /\ ~last.found
    /\ Len(Bucket(vocabulary, HomeBucket(last.word))) = 2

(***************************************************************************)
(* C9, C10                                                                 *)
(***************************************************************************)
\* C9: an insert_word whose allocation fails leaves the table as it was and
\* reports the failure, and the run goes on: every file is still read to its
\* end, all its words passed on, and the run ends with the listing, status 0.
C9_AllocFailureAbandonsInsert ==
    /\ [][(/\ pc = "fgetc"
           /\ last'.op = "insert"
           /\ ~last'.found
           /\ last'.alloc # "ok")
          => /\ vocabulary' = vocabulary
             /\ stderr' = Append(stderr,
                   [msg |-> IF last'.alloc = "no_node"
                            THEN "Failed to allocate memory for new node"
                            ELSE "Failed to duplicate word string",
                    arg |-> 0])
             /\ pc' \in {"fgetc", "loop"}
             /\ exit_status' = -1]_vars
    /\ [](AllocFailed =>
            /\ \A k \in 1..Len(emitted) :
                  (Returned(k) /\ Openable(k)) => emitted[k] = FileTokens[argv[k]]
            /\ pc = "exit" => /\ exit_status = 0
                              /\ Len(emitted) = Len(argv)
                              /\ Len(stdout) >= Len(argv) + 1)

\* the run ended with status 0 after an allocation failure on the first word
\* of the source file, and a later word is listed
C9_Witness ==
    /\ pc = "exit"
    /\ exit_status = 0
    /\ AllocFailed
    /\ Len(argv) = 3
    /\ \A k \in 1..Len(argv) : Openable(k)
    /\ Printed # {}
    /\ FileTokens[argv[1]][1] \notin Printed
    /\ FileTokens[argv[1]][1] \notin Range(FileTokens[argv[2]])
    /\ FileTokens[argv[1]][1] \notin Range(FileTokens[argv[3]])

\* C10: a file that cannot be opened is reported and skipped with the table
\* unchanged; the remaining files are processed in argument order, the listing
\* is printed and the exit status is 0; an unopenable source file gives an
\* empty listing.
C10_OpenFailureSkipsFile ==
    /\ [][(pc = "fopen" /\ ~Openable(i))
          => /\ vocabulary' = vocabulary
             /\ stderr' = Append(stderr,
                   [msg |-> "Error: Could not open file", arg |-> argv[i]])
             /\ emitted' = Append(emitted, <<>>)
             /\ pc' = "loop"
             /\ exit_status' = -1]_vars
    /\ [](OpenFailed =>
            /\ \A k \in 1..Len(emitted) :
                  /\ (Returned(k) /\ Openable(k)) => emitted[k] = FileTokens[argv[k]]
                  /\ ~Openable(k) => emitted[k] = <<>>
            /\ \A k \in 1..Len(argv) :
                  k <= Len(stdout) => stdout[k].text = <<argv[k]>>
            /\ pc = "exit" =>
                  /\ exit_status = 0
                  /\ i = Len(argv) + 1
                  /\ Len(emitted) = Len(argv)
                  /\ stdout[Len(argv) + 1].tag = "--- Final Vocabulary ---"
                  /\ ~Openable(1) => Printed = {})

\* the run ended with status 0 although the first exclusion file could not be
\* opened; the second exclusion file still took a word out
C10_Witness ==
    /\ pc = "exit"
    /\ exit_status = 0
    /\ Len(argv) = 3
    /\ Openable(1) /\ ~Openable(2) /\ Openable(3)
    /\ ~AllocFailed
    /\ Printed # {}
    /\ Printed # Range(FileTokens[argv[1]])

====
